---------------------------- MODULE Spec2Model ----------------------------
(***************************************************************************)
(* Content-moderation backend (socio-backend).                             *)
(*                                                                         *)
(*   extension/backend/content_filter.py  ContentFilter: regex text        *)
(*        filter, URL-pattern image filter, Fernet encrypt / decrypt,      *)
(*        request counters                                                 *)
(*   backend/python_text_filter.py        filter_text over detector output *)
(*   backend/python_decrypt.py            decrypt_content                  *)
(*   backend/image_content_filter.py      SafeSearch flags and the verdict *)
(*   backend/text_analysis.py, extension/backend/app.py                    *)
(*        /process and /recover endpoints                                  *)
(*                                                                         *)
(* A Python str is a sequence of one-character strings.  Every fallible    *)
(* library call returns a record [ok, val]; ok = FALSE stands for the      *)
(* exception the call raises.  Characters that TLA+ cannot write as a      *)
(* one-character string are named: DQUOTE, BACKSLASH, BACKTICK, TAB, LF,   *)
(* CR, and E_ACUTE (U+00E9, a letter outside ASCII).                       *)
(***************************************************************************)
EXTENDS Integers, Sequences, FiniteSets, TLC

VARIABLES
    stats,      \* ContentFilter.stats
    key,        \* ContentFilter.key / ContentFilter.cipher
    held,       \* a filtered result a client keeps (original, encrypted), or NoHeld
    op,         \* the last operation called
    arg,        \* its argument
    result      \* what it returned

vars == <<stats, key, held, op, arg, result>>

-----------------------------------------------------------------------------
(* Bounds of the model.                                                    *)

MaxCalls == 2        \* filter calls counted in Spec
NumIVs == 2          \* distinct Fernet initialisation vectors
MaxPieces == 2       \* pieces concatenated into an input text
MaxHostPieces == 2   \* pieces concatenated into a URL host

-----------------------------------------------------------------------------
(* Strings.                                                                *)

Ascii ==
    <<" ","!","DQUOTE","#","$","%","&","'","(",")","*","+",",","-",".","/",
      "0","1","2","3","4","5","6","7","8","9",":",";","<","=",">","?","@",
      "A","B","C","D","E","F","G","H","I","J","K","L","M","N","O","P","Q",
      "R","S","T","U","V","W","X","Y","Z","[","BACKSLASH","]","^","_","BACKTICK",
      "a","b","c","d","e","f","g","h","i","j","k","l","m","n","o","p","q",
      "r","s","t","u","v","w","x","y","z","{","|","}","~">>

AsciiChars == {Ascii[i] : i \in 1..Len(Ascii)}

\* ord(c): Ascii[i] is the character with code point i + 31
CodePoint == [c \in AsciiChars |-> 31 + (CHOOSE i \in 1..Len(Ascii) : Ascii[i] = c)]

\* chr(n) for an ASCII code point
Chr(n) == Ascii[n - 31]

UpperChars == {c \in AsciiChars : CodePoint[c] >= 65 /\ CodePoint[c] <= 90}
LowerChars == {c \in AsciiChars : CodePoint[c] >= 97 /\ CodePoint[c] <= 122}
DigitChars == {c \in AsciiChars : CodePoint[c] >= 48 /\ CodePoint[c] <= 57}

ToLower == [c \in UpperChars |-> Chr(CodePoint[c] + 32)]

\* str.lower() on one character
Lower(c) == IF c \in UpperChars THEN ToLower[c] ELSE c

LowerStr(s) == [i \in 1..Len(s) |-> Lower(s[i])]

\* \w of the re module (Unicode letters count)
IsWord(c) == c \in UpperChars \/ c \in LowerChars \/ c \in DigitChars \/ c = "_" \/ c = "E_ACUTE"

\* \s of the re module
IsSpace(c) == c \in {" ", "TAB", "LF", "CR"}

\* str.strip()
RECURSIVE LStrip(_)
LStrip(s) == IF s # <<>> /\ IsSpace(Head(s)) THEN LStrip(Tail(s)) ELSE s

RECURSIVE RStrip(_)
RStrip(s) == IF s # <<>> /\ IsSpace(s[Len(s)]) THEN RStrip(SubSeq(s, 1, Len(s) - 1)) ELSE s

Strip(s) == RStrip(LStrip(s))

Stars(n) == [i \in 1..n |-> "*"]

\* s occurs in t at 1-based position i
OccursAt(s, t, i) == i >= 1 /\ i + Len(s) - 1 <= Len(t) /\ SubSeq(t, i, i + Len(s) - 1) = s

\* `s in t`
Contains(t, s) == \E i \in 1..(Len(t) + 1) : OccursAt(s, t, i)

\* every concatenation of at most n members of pieces
RECURSIVE SeqsUpTo(_, _)
SeqsUpTo(pieces, n) ==
    IF n = 0 THEN {<<>>}
    ELSE LET shorter == SeqsUpTo(pieces, n - 1)
         IN  shorter \cup {p \o s : p \in pieces, s \in shorter}

-----------------------------------------------------------------------------
(* UTF-8, base64 and Fernet (cryptography.fernet), as the code uses them.  *)

NoBytes == <<>>

\* (mutant) the text is encoded as Latin-1: U+00E9 is the single byte 0xE9
Latin1OfChar(c) ==
    IF c \in AsciiChars THEN [ok |-> TRUE, val |-> <<CodePoint[c]>>]
    ELSE IF c = "E_ACUTE" THEN [ok |-> TRUE, val |-> <<233>>]
    ELSE [ok |-> FALSE, val |-> <<>>]

\* str.encode('utf-8'): one byte per ASCII character, two for U+00E9; a
\* lone surrogate cannot be encoded (UnicodeEncodeError)
Utf8OfChar(c) ==
    IF c \in AsciiChars THEN [ok |-> TRUE, val |-> <<CodePoint[c]>>]
    ELSE IF c = "E_ACUTE" THEN [ok |-> TRUE, val |-> <<195, 169>>]
    ELSE [ok |-> FALSE, val |-> NoBytes]

RECURSIVE utf8_encode(_)
utf8_encode(s) ==
    IF s = <<>> THEN [ok |-> TRUE, val |-> NoBytes]
    ELSE LET h == Utf8OfChar(Head(s))
             t == utf8_encode(Tail(s))
         IN  IF h.ok /\ t.ok THEN [ok |-> TRUE, val |-> h.val \o t.val]
             ELSE [ok |-> FALSE, val |-> NoBytes]

\* bytes.decode('utf-8'): UnicodeDecodeError on a malformed sequence
RECURSIVE utf8_decode(_)
utf8_decode(b) ==
    IF b = <<>> THEN [ok |-> TRUE, val |-> <<>>]
    ELSE IF b[1] >= 32 /\ b[1] <= 126 THEN
        LET t == utf8_decode(Tail(b))
        IN  IF t.ok THEN [ok |-> TRUE, val |-> <<Chr(b[1])>> \o t.val]
            ELSE [ok |-> FALSE, val |-> <<>>]
    ELSE IF b[1] = 195 /\ Len(b) >= 2 /\ b[2] = 169 THEN
        LET t == utf8_decode(SubSeq(b, 3, Len(b)))
        IN  IF t.ok THEN [ok |-> TRUE, val |-> <<"E_ACUTE">> \o t.val]
            ELSE [ok |-> FALSE, val |-> <<>>]
    ELSE [ok |-> FALSE, val |-> <<>>]

Keys == {"k1", "k2"}

IVs == 1..NumIVs

\* AES-CBC under key k: only the same key and IV give the data back
AES(k, iv, data) == [enc_with |-> k, iv |-> iv, data |-> data]

\* HMAC-SHA256 of the token body under key k
HMAC(k, iv, ct) == [signed_with |-> k, iv |-> iv, over |-> ct]

\* Fernet(k).encrypt(data): version byte 0x80, IV, ciphertext, HMAC
FernetEncrypt(k, data, iv) ==
    [version |-> 128, iv |-> iv, ct |-> AES(k, iv, data), hmac |-> HMAC(k, iv, AES(k, iv, data))]

\* bytes that are no Fernet token (empty, too short, wrong version byte)
JunkBytes == [version |-> 0, iv |-> 0, ct |-> AES("", 0, NoBytes), hmac |-> HMAC("", 0, AES("", 0, NoBytes))]

\* Fernet(k).decrypt(token): InvalidToken unless the version byte is 0x80,
\* the HMAC verifies under k and the ciphertext decrypts under k
FernetDecrypt(k, token) ==
    IF /\ token.version = 128
       /\ token.hmac = HMAC(k, token.iv, token.ct)
       /\ token.ct.enc_with = k
       /\ token.ct.iv = token.iv
    THEN [ok |-> TRUE, val |-> token.ct.data]
    ELSE [ok |-> FALSE, val |-> NoBytes]

\* base64.b64encode(b).decode('utf-8'): a printable string carrying b
b64encode(b) == [b64 |-> TRUE, bytes |-> b]

\* base64.b64decode(s): binascii.Error on incorrect padding
b64decode(s) ==
    IF s.b64 THEN [ok |-> TRUE, val |-> s.bytes] ELSE [ok |-> FALSE, val |-> JunkBytes]

\* the empty string "" (it decodes to no bytes)
EmptyStr == b64encode(JunkBytes)

\* a string base64.b64decode rejects
NotBase64 == [b64 |-> FALSE, bytes |-> JunkBytes]

\* ContentFilter.encrypt_content
encrypt_content(k, content, iv) ==
    LET content_bytes == utf8_encode(content)
    IN  IF ~content_bytes.ok THEN EmptyStr
        ELSE b64encode(FernetEncrypt(k, content_bytes.val, iv))

\* ContentFilter.decrypt_content: every exception is caught and "" returned
decrypt_content(k, encrypted) ==
    LET encrypted_bytes == b64decode(encrypted)
    IN  IF ~encrypted_bytes.ok THEN <<>>
        ELSE LET decrypted_bytes == FernetDecrypt(k, encrypted_bytes.val)
             IN  IF ~decrypted_bytes.ok THEN <<>>
                 ELSE LET decrypted_str == utf8_decode(decrypted_bytes.val)
                      IN  IF ~decrypted_str.ok THEN <<>> ELSE decrypted_str.val

-----------------------------------------------------------------------------
(* The re module, for the patterns of ContentFilter.  A pattern            *)
(* \b(a1|a2|...)\b is the sequence of its alternatives; an alternative is  *)
(* a sequence of lower-case characters and "SPACES" (\s+).                 *)

\* ContentFilter.inappropriate_patterns, compiled with re.IGNORECASE
inappropriate_patterns ==
    << << <<"h","a","t","e">>,
          <<"v","i","o","l","e","n","c","e">>,
          <<"a","b","u","s","e">>,
          <<"e","x","p","l","i","c","i","t">>,
          <<"o","b","s","c","e","n","e">> >>,
       << <<"r","a","c","i","s","t">>,
          <<"s","e","x","i","s","t">>,
          <<"d","i","s","c","r","i","m","i","n","a","t","e">>,
          <<"d","i","s","c","r","i","m","i","n","a","t","i","o","n">>,
          <<"d","i","s","c","r","i","m","i","n","a","t","o","r","y">> >>,
       << <<"n","s","f","w">>,
          <<"p","o","r","n">>,
          <<"x","x","x">>,
          <<"a","d","u","l","t","SPACES","c","o","n","t","e","n","t">> >>,
       << <<"k","i","l","l">>,
          <<"m","u","r","d","e","r">>,
          <<"a","s","s","a","u","l","t">>,
          <<"a","t","t","a","c","k">>,
          <<"t","h","r","e","a","t">> >>,
       << <<"o","f","f","e","n","s","i","v","e">>,
          <<"v","u","l","g","a","r">>,
          <<"p","r","o","f","a","n","i","t","y">>,
          <<"s","w","e","a","r">> >>,
       << <<"n","a","k","e","d">>,
          <<"n","u","d","e">>,
          <<"s","e","x">>,
          <<"s","e","x","u","a","l">>,
          <<"e","r","o","t","i","c">> >> >>

\* the first index >= i of s that holds no whitespace (Len(s) + 1 if none)
RECURSIVE SkipSpaces(_, _)
SkipSpaces(s, i) == IF i <= Len(s) /\ IsSpace(s[i]) THEN SkipSpaces(s, i + 1) ELSE i

\* matching the atoms at index i of s: the index after the match, 0 if none
RECURSIVE MatchAtoms(_, _, _)
MatchAtoms(atoms, s, i) ==
    IF atoms = <<>> THEN i
    ELSE IF i > Len(s) THEN 0
    ELSE IF Head(atoms) = "SPACES" THEN
        IF IsSpace(s[i]) THEN MatchAtoms(Tail(atoms), s, SkipSpaces(s, i)) ELSE 0
    ELSE IF Lower(s[i]) = Head(atoms) THEN MatchAtoms(Tail(atoms), s, i + 1)
    ELSE 0

\* \b between s[i-1] and s[i]
WordBoundary(s, i) ==
    LET before == i > 1 /\ IsWord(s[i - 1])
        after == i <= Len(s) /\ IsWord(s[i])
    IN  before # after

\* the pattern matched at index i: the index after the match of the first
\* alternative that matches between two word boundaries, 0 if none does
PatternMatchAt(p, s, i) ==
    IF ~WordBoundary(s, i) THEN 0
    ELSE LET end(a) == LET e == MatchAtoms(p[a], s, i)
                       IN  IF e # 0 /\ WordBoundary(s, e) THEN e ELSE 0
         IN  IF \E a \in 1..Len(p) : end(a) # 0
             THEN end(CHOOSE a \in 1..Len(p) : end(a) # 0 /\ \A b \in 1..(a - 1) : end(b) = 0)
             ELSE 0

\* pattern.search(s)
pattern_search(p, s) == \E i \in 1..Len(s) : PatternMatchAt(p, s, i) # 0

\* the replacement function of filter_text: lambda m: '*' * len(m.group(0))
MaskOfMatch(m) == Stars(Len(m))

\* pattern.sub(repl, s): the leftmost non-overlapping matches, replaced
RECURSIVE SubFrom(_, _, _)
SubFrom(p, s, i) ==
    IF i > Len(s) THEN <<>>
    ELSE LET e == PatternMatchAt(p, s, i)
         IN  IF e # 0 THEN MaskOfMatch(SubSeq(s, i, e - 1)) \o SubFrom(p, s, e)
             ELSE <<s[i]>> \o SubFrom(p, s, i + 1)

pattern_sub(p, s) == SubFrom(p, s, 1)

\* for pattern in self.compiled_patterns: modified_text = pattern.sub(...)
RECURSIVE SubAll(_, _)
SubAll(ps, s) == IF ps = <<>> THEN s ELSE SubAll(Tail(ps), pattern_sub(Head(ps), s))

-----------------------------------------------------------------------------
(* Inputs of the call sequences, and the results of the two pure scans on  *)
(* them, computed once.                                                    *)

ExampleTexts ==
    { <<>>,
      <<"I"," ","k","i","l","l">>,
      <<"k","i","l","l","s">>,
      <<"E_ACUTE"," ","s","e","x">> }

ExampleUrls ==
    { <<"h","t","t","p",":","/","/","N","S","F","W",".","i","o","/","a">>,
      <<"h","t","t","p",":","/","/","a",".","i","o","/","b">>,
      <<"a",".","i","o","/","n","s","f","w">>,
      <<"h","t","t","p",":","/","/","[","a","d","u","l","t">> }

ExampleContents ==
    { <<>>,
      <<" ">>,
      <<"I"," ","k","i","l","l">>,
      <<"E_ACUTE"," ","s","e","x">>,
      <<"h","t","t","p",":","/","/","a",".","i","o","/","b">> }

-----------------------------------------------------------------------------
(* ContentFilter.                                                          *)

InitStats == [text_filtered |-> 0, images_filtered |-> 0, total_requests |-> 0]

\* the indices of the patterns that match: matched_patterns
MatchedPatterns(text) ==
    SelectSeq([i \in 1..Len(inappropriate_patterns) |-> i],
              LAMBDA i : pattern_search(inappropriate_patterns[i], text))

\* modified_text after the loop over self.compiled_patterns
MaskedText(text) == SubAll(inappropriate_patterns, text)

TextScans == [t \in ExampleTexts |-> [matched |-> MatchedPatterns(t), masked |-> MaskedText(t)]]

ScanText(text) ==
    IF text \in ExampleTexts THEN TextScans[text]
    ELSE [matched |-> MatchedPatterns(text), masked |-> MaskedText(text)]

\* (mutant) the text let through is normalised with str.strip()
PassedStripped(reason, content) ==
    [filtered |-> FALSE, reason |-> reason, original |-> content, modified |-> Strip(content)]

\* the dict returned for content that is let through unchanged
Passed(reason, content) ==
    [filtered |-> FALSE, reason |-> reason, original |-> content, modified |-> content]

\* (mutant) a text that is too short is answered before the call is counted
filter_text_short_uncounted(st, k, text, iv) ==
    LET counted == [st EXCEPT !.total_requests = @ + 1]
        matched_patterns == ScanText(text).matched
    IN  IF text = <<>> \/ Len(text) < 3 THEN
            [stats |-> st,
             result |-> Passed("Text too short", text)]
        ELSE IF matched_patterns # <<>> THEN
            [stats |-> [counted EXCEPT !.text_filtered = @ + 1],
             result |-> [filtered |-> TRUE, reason |-> "Inappropriate content detected",
                         patterns |-> matched_patterns,
                         original |-> text,
                         modified |-> ScanText(text).masked,
                         encrypted |-> encrypt_content(k, text, iv)]]
        ELSE
            [stats |-> counted,
             result |-> Passed("No inappropriate content detected", text)]

\* ContentFilter.filter_text: the new stats and the returned dict
filter_text(st, k, text, iv) ==
    LET counted == [st EXCEPT !.total_requests = @ + 1]
        matched_patterns == ScanText(text).matched
    IN  IF text = <<>> \/ Len(text) < 3 THEN
            [stats |-> counted,
             result |-> Passed("Text too short", text)]
        ELSE IF matched_patterns # <<>> THEN
            [stats |-> [counted EXCEPT !.text_filtered = @ + 1],
             result |-> [filtered |-> TRUE, reason |-> "Inappropriate content detected",
                         patterns |-> matched_patterns,
                         original |-> text,
                         modified |-> ScanText(text).masked,
                         encrypted |-> encrypt_content(k, text, iv)]]
        ELSE
            [stats |-> counted,
             result |-> Passed("No inappropriate content detected", text)]

\* urllib.parse.urlparse: the scheme is what precedes the first ':' when it
\* is a letter followed by scheme characters; the netloc is what follows
\* '//' up to the next '/', '?' or '#'; an unbalanced bracket in the netloc
\* raises ValueError (ok = FALSE)
FirstIndexOf(s, cs) ==
    IF \E i \in 1..Len(s) : s[i] \in cs
    THEN CHOOSE i \in 1..Len(s) : s[i] \in cs /\ \A j \in 1..(i - 1) : s[j] \notin cs
    ELSE 0

SchemeChars == UpperChars \cup LowerChars \cup DigitChars \cup {"+", "-", "."}

urlparse(url) ==
    LET colon == FirstIndexOf(url, {":"})
        has_scheme == /\ colon > 1
                      /\ url[1] \in UpperChars \cup LowerChars
                      /\ \A j \in 1..(colon - 1) : url[j] \in SchemeChars
        scheme == IF has_scheme THEN LowerStr(SubSeq(url, 1, colon - 1)) ELSE <<>>
        rest == IF has_scheme THEN SubSeq(url, colon + 1, Len(url)) ELSE url
        has_netloc == Len(rest) >= 2 /\ rest[1] = "/" /\ rest[2] = "/"
        after == SubSeq(rest, 3, Len(rest))
        delim == FirstIndexOf(after, {"/", "?", "#"})
        netloc == IF ~has_netloc THEN <<>>
                  ELSE IF delim = 0 THEN after
                  ELSE SubSeq(after, 1, delim - 1)
        open == \E i \in 1..Len(netloc) : netloc[i] = "["
        close == \E i \in 1..Len(netloc) : netloc[i] = "]"
    IN  [ok |-> open = close, scheme |-> scheme, netloc |-> netloc]

\* inappropriate_url_patterns of filter_image, searched with re.IGNORECASE
inappropriate_url_patterns ==
    << <<"n","s","f","w">>,
       <<"a","d","u","l","t">>,
       <<"x","x","x">>,
       <<"p","o","r","n">>,
       <<"e","x","p","l","i","c","i","t">> >>

\* (mutant) the URL is searched without re.IGNORECASE
url_pattern_search_cased(pattern, image_url) == Contains(image_url, pattern)

\* re.search(pattern, image_url, re.IGNORECASE) for a pattern of plain letters
url_pattern_search(pattern, image_url) == Contains(LowerStr(image_url), pattern)

placeholder_image ==
    <<"h","t","t","p","s",":","/","/","v","i","a",".","p","l","a","c","e","h","o","l","d","e","r",
      ".","c","o","m","/","4","0","0","x","3","0","0","?","t","e","x","t","=",
      "C","o","n","t","e","n","t","+","F","i","l","t","e","r","e","d">>

\* some pattern of inappropriate_url_patterns is found in the URL
UrlPatternHit(image_url) ==
    \E i \in 1..Len(inappropriate_url_patterns) :
        url_pattern_search(inappropriate_url_patterns[i], image_url)

UrlScans == [u \in ExampleUrls |-> [parsed |-> urlparse(u), hit |-> UrlPatternHit(u)]]

ScanUrl(image_url) ==
    IF image_url \in ExampleUrls THEN UrlScans[image_url]
    ELSE [parsed |-> urlparse(image_url), hit |-> UrlPatternHit(image_url)]

\* ContentFilter.filter_image; random_hit is random.random() < 0.4
filter_image(st, k, image_url, random_hit, iv) ==
    LET counted == [st EXCEPT !.total_requests = @ + 1]
        parsed_url == ScanUrl(image_url).parsed
    IN  IF ~parsed_url.ok THEN
            [stats |-> counted,
             result |-> Passed("Error parsing URL", image_url)]
        ELSE IF parsed_url.scheme = <<>> \/ parsed_url.netloc = <<>> THEN
            [stats |-> counted,
             result |-> Passed("Invalid URL", image_url)]
        ELSE IF ScanUrl(image_url).hit THEN
            [stats |-> [counted EXCEPT !.images_filtered = @ + 1],
             result |-> [filtered |-> TRUE, reason |-> "Potentially inappropriate image",
                         original |-> image_url, modified |-> placeholder_image,
                         encrypted |-> encrypt_content(k, image_url, iv)]]
        ELSE IF random_hit THEN
            [stats |-> [counted EXCEPT !.images_filtered = @ + 1],
             result |-> [filtered |-> TRUE,
                         reason |-> "Potentially inappropriate content detected",
                         original |-> image_url, modified |-> placeholder_image,
                         encrypted |-> encrypt_content(k, image_url, iv)]]
        ELSE
            [stats |-> counted,
             result |-> Passed("No inappropriate content detected", image_url)]

\* ContentFilter.get_stats
get_stats(st) == st

-----------------------------------------------------------------------------
(* The ContentFilter instance of the server (app.py:39) under a sequence   *)
(* of calls.  A client may keep one ciphertext it was given, with the text *)
(* it stands for, and present it again later.                              *)

NoHeld == [set |-> FALSE, from |-> "none", original |-> <<>>, encrypted |-> EmptyStr]

Keep(from, original, encrypted) ==
    [set |-> TRUE, from |-> from, original |-> original, encrypted |-> encrypted]

\* what the client may hold after a call that returned `encrypted` for `original`
HeldAfter(from, original, encrypted) ==
    IF held.set THEN {held} ELSE {held, Keep(from, original, encrypted)}

\* a token whose ciphertext was altered after it was signed
Tampered(c) == [c EXCEPT !.bytes.ct.data = <<63>> \o @]

\* strings a caller may hand to decrypt_content
CipherInputs ==
    {EmptyStr, NotBase64}
        \cup {encrypt_content(k, <<"o","k">>, 1) : k \in Keys \ {key}}
        \cup (IF held.set THEN {held.encrypted, Tampered(held.encrypted)} ELSE {})

Init ==
    /\ stats = InitStats
    /\ key \in Keys
    /\ held = NoHeld
    /\ op = "init"
    /\ arg = <<>>
    /\ result = <<>>

FilterText(text) ==
    /\ stats.total_requests < MaxCalls
    /\ \E iv \in IVs :
        \E r \in {filter_text(stats, key, text, iv)} :
            /\ stats' = r.stats
            /\ result' = r.result
            /\ held' \in (IF r.result.filtered
                          THEN HeldAfter("filter_text", text, r.result.encrypted)
                          ELSE {held})
    /\ op' = "filter_text"
    /\ arg' = text
    /\ UNCHANGED key

\* (mutant) filter_image makes itself a new key and cipher
FilterImageNewKey(image_url) ==
    /\ stats.total_requests < MaxCalls
    /\ \E iv \in IVs, random_hit \in BOOLEAN, k \in Keys :
        \E r \in {filter_image(stats, k, image_url, random_hit, iv)} :
            /\ stats' = r.stats
            /\ result' = r.result
            /\ key' = k
            /\ held' \in (IF r.result.filtered
                          THEN HeldAfter("filter_image", image_url, r.result.encrypted)
                          ELSE {held})
    /\ op' = "filter_image"
    /\ arg' = image_url

FilterImage(image_url) ==
    /\ stats.total_requests < MaxCalls
    /\ \E iv \in IVs, random_hit \in BOOLEAN :
        \E r \in {filter_image(stats, key, image_url, random_hit, iv)} :
            /\ stats' = r.stats
            /\ result' = r.result
            /\ held' \in (IF r.result.filtered
                          THEN HeldAfter("filter_image", image_url, r.result.encrypted)
                          ELSE {held})
    /\ op' = "filter_image"
    /\ arg' = image_url
    /\ UNCHANGED key

EncryptContent(content) ==
    /\ \E iv \in IVs :
        \E encrypted \in {encrypt_content(key, content, iv)} :
            /\ result' = encrypted
            /\ held' \in HeldAfter("encrypt_content", content, encrypted)
    /\ op' = "encrypt_content"
    /\ arg' = content
    /\ UNCHANGED <<stats, key>>

DecryptContent(encrypted) ==
    /\ result' = decrypt_content(key, encrypted)
    /\ op' = "decrypt_content"
    /\ arg' = encrypted
    /\ UNCHANGED <<stats, key, held>>

\* the bodies a caller may post to /decrypt: one that request.json cannot
\* read, a JSON object without 'encrypted', and one with it
DecryptRequests ==
    { [json |-> FALSE, has_encrypted |-> FALSE, encrypted |-> EmptyStr],
      [json |-> TRUE, has_encrypted |-> FALSE, encrypted |-> EmptyStr] }
        \cup { [json |-> TRUE, has_encrypted |-> TRUE, encrypted |-> c] : c \in CipherInputs }

\* app.py decrypt_content (POST /decrypt): request.json raises on an
\* unreadable body, which the except turns into 500; a missing field is 400;
\* otherwise whatever ContentFilter.decrypt_content returns is sent with 200
decrypt_endpoint(k, data) ==
    IF ~data.json THEN [status |-> 500, body |-> [error |-> "BadRequest"]]
    ELSE IF ~data.has_encrypted THEN
        [status |-> 400, body |-> [error |-> "No encrypted content provided"]]
    ELSE [status |-> 200, body |-> [decrypted |-> decrypt_content(k, data.encrypted)]]

DecryptEndpoint(data) ==
    /\ result' = decrypt_endpoint(key, data)
    /\ op' = "/decrypt"
    /\ arg' = data
    /\ UNCHANGED <<stats, key, held>>

\* (mutant) get_stats is counted as a request
GetStatsCounted ==
    /\ result' = get_stats(stats)
    /\ op' = "get_stats"
    /\ arg' = <<>>
    /\ stats' = [stats EXCEPT !.total_requests = @ + 1]
    /\ UNCHANGED <<key, held>>

GetStats ==
    /\ result' = get_stats(stats)
    /\ op' = "get_stats"
    /\ arg' = <<>>
    /\ UNCHANGED <<stats, key, held>>

Next ==
    \/ \E text \in ExampleTexts : FilterText(text)
    \/ \E image_url \in ExampleUrls : FilterImage(image_url)
    \/ \E content \in ExampleContents : EncryptContent(content)
    \/ \E encrypted \in CipherInputs : DecryptContent(encrypted)
    \/ \E data \in DecryptRequests : DecryptEndpoint(data)
    \/ GetStats

Spec == Init /\ [][Next]_vars

-----------------------------------------------------------------------------
(* backend/python_text_filter.py: filter_text over the detectors' output.  *)
(* The detectors (detect_hate_speech_profanity, detect_sensitive_info) are *)
(* a capability outside the core; what they return is an input here.       *)

\* str.replace(old, new): every non-overlapping occurrence, left to right;
\* an empty `old` matches between all characters
RECURSIVE ReplaceFrom(_, _, _, _)
ReplaceFrom(s, old, new, i) ==
    IF i > Len(s) THEN <<>>
    ELSE IF OccursAt(old, s, i) THEN new \o ReplaceFrom(s, old, new, i + Len(old))
    ELSE <<s[i]>> \o ReplaceFrom(s, old, new, i + 1)

RECURSIVE Interleave(_, _)
Interleave(s, new) == IF s = <<>> THEN new ELSE new \o <<Head(s)>> \o Interleave(Tail(s), new)

Replace(s, old, new) ==
    IF old = <<>> THEN Interleave(s, new) ELSE ReplaceFrom(s, old, new, 1)

\* (mutant) the first four characters are revealed: item[:4]
FirstFour(item) == SubSeq(item, 1, IF Len(item) > 4 THEN 4 ELSE Len(item))

\* item[-4:]
LastFour(item) == SubSeq(item, IF Len(item) > 4 THEN Len(item) - 3 ELSE 1, Len(item))

\* '*' * n : empty for n <= 0
StarsTimes(n) == IF n > 0 THEN Stars(n) ELSE <<>>

\* (mutant) the asterisk count is abs(len(item) - 4)
CardMaskAbs(item) ==
    Stars(IF Len(item) >= 4 THEN Len(item) - 4 ELSE 4 - Len(item)) \o LastFour(item)

\* masked = '*' * (len(item) - 4) + last_four
CardMask(item) == StarsTimes(Len(item) - 4) \o LastFour(item)

\* '*' * len(word), '*' * len(item)
FullMask(item) == StarsTimes(Len(item))

credit_cards == <<"c","r","e","d","i","t","_","c","a","r","d","s">>

\* the mask python_text_filter.filter_text substitutes for a sensitive item
SensitiveMask(type_name, item) ==
    IF type_name = credit_cards THEN CardMask(item) ELSE FullMask(item)

\* for word in detection_results["flagged_words"]: replace by asterisks
RECURSIVE MaskWords(_, _)
MaskWords(modified_text, words) ==
    IF words = <<>> THEN modified_text
    ELSE MaskWords(Replace(modified_text, Head(words), FullMask(Head(words))), Tail(words))

\* for item in items: replace by the mask of its type
RECURSIVE MaskItems(_, _, _)
MaskItems(modified_text, type_name, items) ==
    IF items = <<>> THEN modified_text
    ELSE MaskItems(Replace(modified_text, Head(items), SensitiveMask(type_name, Head(items))),
                   type_name, Tail(items))

\* for type_name, items in detection_results["sensitive_info"].items()
RECURSIVE MaskSensitive(_, _)
MaskSensitive(modified_text, sensitive_info) ==
    IF sensitive_info = <<>> THEN modified_text
    ELSE MaskSensitive(MaskItems(modified_text, Head(sensitive_info).type_name,
                                 Head(sensitive_info).items),
                       Tail(sensitive_info))

\* text_analysis.encrypt_data: the Reversible Cipher under the process key
encrypt_data(k, data, iv) == b64encode(FernetEncrypt(k, utf8_encode(data).val, iv))

\* python_text_filter.filter_text; detection is what the detectors return,
\* or raised = TRUE when one of them raises
py_filter_text(k, text, detection, iv) ==
    IF detection.raised THEN
        [error |-> "detector", filtered |-> FALSE, original |-> text, modified |-> text]
    ELSE LET inappropriate ==
                 \/ detection.hate_speech
                 \/ detection.profanity
                 \/ \E i \in 1..Len(detection.sensitive_info) :
                        detection.sensitive_info[i].items # <<>>
         IN  IF inappropriate THEN
                 [filtered |-> TRUE, reason |-> "Inappropriate content detected",
                  analysis |-> detection,
                  original |-> text,
                  modified |-> MaskSensitive(MaskWords(text, detection.flagged_words),
                                             detection.sensitive_info),
                  encrypted |-> encrypt_data(k, text, iv)]
             ELSE
                 [filtered |-> FALSE, reason |-> "No inappropriate content detected",
                  original |-> text, modified |-> text]

-----------------------------------------------------------------------------
(* /process and /recover.  The endpoints are in app.py and                 *)
(* backend/text_analysis.py; process_text and recover_text are the         *)
(* Redaction Engine and the Recovery Engine of the specification (4.4,     *)
(* 4.6): redaction masks every occurrence of each flagged value and logs   *)
(* its ciphertext, recovery puts the values back in log order.             *)

\* text_analysis.decrypt_data: the Reversible Cipher, failing with
\* DecryptionFailed (ok = FALSE)
decrypt_data(k, encrypted) ==
    LET b == b64decode(encrypted)
        d == IF b.ok THEN FernetDecrypt(k, b.val) ELSE [ok |-> FALSE, val |-> NoBytes]
    IN  IF d.ok THEN utf8_decode(d.val) ELSE [ok |-> FALSE, val |-> <<>>]

\* python_decrypt.decrypt_content: the plaintext, or an error outcome
py_decrypt_content(k, encrypted) ==
    LET decrypted == decrypt_data(k, encrypted)
    IN  IF decrypted.ok THEN [decrypted |-> decrypted.val]
        ELSE [error |-> "DecryptionFailed", decrypted |-> <<>>]

\* the first position of value in text (0 if it does not occur)
FirstOccurrence(value, text) ==
    IF \E i \in 1..Len(text) : OccursAt(value, text, i)
    THEN CHOOSE i \in 1..Len(text) :
             OccursAt(value, text, i) /\ \A j \in 1..(i - 1) : ~OccursAt(value, text, j)
    ELSE 0

\* detect_content(text): the literal values the rules flag in text, with
\* their categories, in order of first occurrence (4.1, 4.2, 4.4)
RECURSIVE OrderFlags(_, _)
OrderFlags(flags, text) ==
    IF flags = {} THEN <<>>
    ELSE LET first == CHOOSE f \in flags :
                          \A g \in flags :
                              FirstOccurrence(f.value, text) <= FirstOccurrence(g.value, text)
         IN  <<first>> \o OrderFlags(flags \ {first}, text)

detect_content(text, rules) ==
    OrderFlags({f \in rules : f.value # <<>> /\ FirstOccurrence(f.value, text) # 0}, text)

\* the mask of a flagged value of a category (4.4, step 3)
RedactionMask(category, value) ==
    IF category = "credit_cards" THEN CardMask(value) ELSE FullMask(value)

\* process_text(text, detection_results, "encrypt"): flagged values in order
\* of first occurrence, each encrypted, logged and masked everywhere
RECURSIVE process_text(_, _, _, _)
process_text(k, text, flagged, iv) ==
    IF flagged = <<>> THEN [processed_text |-> text, encryption_log |-> <<>>]
    ELSE LET f == Head(flagged)
             mask == RedactionMask(f.category, f.value)
             rest == process_text(k, Replace(text, f.value, mask), Tail(flagged), iv)
         IN  [processed_text |-> rest.processed_text,
              encryption_log |->
                  <<[placeholder |-> mask, ciphertext |-> encrypt_data(k, f.value, iv),
                     category |-> f.category]>> \o rest.encryption_log]

\* recover_text(processed_text, encryption_log): RecoveryLogMissing on an
\* empty log, RecoveryFailed when a ciphertext does not decrypt
RECURSIVE RecoverEntries(_, _, _)
RecoverEntries(k, processed_text, encryption_log) ==
    IF encryption_log = <<>> THEN [ok |-> TRUE, val |-> processed_text]
    ELSE LET e == Head(encryption_log)
             value == decrypt_data(k, e.ciphertext)
         IN  IF ~value.ok THEN [ok |-> FALSE, val |-> <<>>]
             ELSE RecoverEntries(k, Replace(processed_text, e.placeholder, value.val),
                                 Tail(encryption_log))

recover_text(k, processed_text, encryption_log) ==
    IF encryption_log = <<>> THEN [ok |-> FALSE, val |-> <<>>]
    ELSE RecoverEntries(k, processed_text, encryption_log)

NoLog == <<>>

\* POST /process with action "encrypt": app.py takes the text as sent,
\* text_analysis.py strips it and rejects an empty one
process_endpoint(server, k, text, rules, iv) ==
    LET t == IF server = "text_analysis" THEN Strip(text) ELSE text
    IN  IF server = "text_analysis" /\ t = <<>> THEN
            [status |-> 400, success |-> FALSE, processed_text |-> <<>>, encryption_log |-> NoLog]
        ELSE LET r == process_text(k, t, detect_content(t, rules), iv)
             IN  [status |-> 200, success |-> TRUE,
                  processed_text |-> r.processed_text, encryption_log |-> r.encryption_log]

\* POST /recover: text_analysis.py strips the processed text and answers 400
\* when it or the log is empty; both answer 500 when recover_text raises
recover_endpoint(server, k, processed_text, encryption_log) ==
    LET p == IF server = "text_analysis" THEN Strip(processed_text) ELSE processed_text
    IN  IF server = "text_analysis" /\ (p = <<>> \/ encryption_log = <<>>) THEN
            [status |-> 400, success |-> FALSE, recovered_text |-> <<>>]
        ELSE LET r == recover_text(k, p, encryption_log)
             IN  IF r.ok THEN [status |-> 200, success |-> TRUE, recovered_text |-> r.val]
                 ELSE [status |-> 500, success |-> FALSE, recovered_text |-> <<>>]

\* the answer of /recover, with whether the recovery function was called
WithInvoked(answer, invoked) ==
    [status |-> answer.status, success |-> answer.success,
     recovered_text |-> answer.recovered_text, invoked |-> invoked]

\* POST /recover with a JSON body in which each field may be absent: app.py
\* answers 400 when a field is absent and otherwise calls recover_text;
\* text_analysis.py reads an absent field as "" or [] and answers 400 when
\* the stripped text or the log is empty
recover_request(server, k, data) ==
    IF server = "app" THEN
        IF ~data.has_text \/ ~data.has_log THEN
            [status |-> 400, success |-> FALSE, recovered_text |-> <<>>, invoked |-> FALSE]
        ELSE WithInvoked(recover_endpoint(server, k, data.processed_text, data.encryption_log),
                         TRUE)
    ELSE WithInvoked(recover_endpoint(server, k,
                                      IF data.has_text THEN data.processed_text ELSE <<>>,
                                      IF data.has_log THEN data.encryption_log ELSE NoLog),
                     /\ data.has_text /\ Strip(data.processed_text) # <<>>
                     /\ data.has_log /\ data.encryption_log # NoLog)

-----------------------------------------------------------------------------
(* The text functions applied to one input: ContentFilter.filter_text on a *)
(* new instance, python_text_filter.filter_text, and /process followed by  *)
(* /recover.                                                               *)

FilterPieces ==
    { <<"k","i","l","l">>, <<"S","e","x">>, <<"s","e","x","u","a","l">>, <<"s">>, <<" ">>,
      <<"a","d","u","l","t"," ">>, <<"c","o","n","t","e","n","t">>, <<"_">>, <<"E_ACUTE">>,
      <<"h","a","t","e">> }

card16 == <<"4","1","1","1","1","1","1","1","1","1","1","1","1","1","1","1">>

DetectedPieces ==
    { <<"k","i","l","l">>, <<"e","r">>, <<" ">>, card16, <<"1","2","3">>,
      <<"e","r"," ","*","e","r">> }

FlaggedWordChoices ==
    { <<>>,
      << <<"k","i","l","l">> >>,
      << <<"4","1","1","1">> >>,
      << <<"k","i","l","l">>, <<"4","1","1","1">> >>,
      << <<"4","1","1","1">>, <<"k","i","l","l">> >>,
      << <<"k","i","l","l">>, <<"k","i","l","l","e","r">> >>,
      << <<"k","i","l","l">>, <<"*","e","r">> >> }

CardChoices == { <<>>, <<card16>>, <<<<"1","2","3">>>>, <<card16, <<"1","2","3">>>> }

OtherChoices == { <<>>, << <<"1","2","3">> >> }

Detections ==
    { [raised |-> FALSE, hate_speech |-> hs, profanity |-> FALSE, flagged_words |-> ws,
       sensitive_info |-> << [type_name |-> credit_cards, items |-> cs],
                             [type_name |-> <<"p","h","o","n","e","s">>, items |-> os] >>] :
        hs \in BOOLEAN, ws \in FlaggedWordChoices,
        cs \in CardChoices, os \in OtherChoices }
    \cup
    { [raised |-> TRUE, hate_speech |-> FALSE, profanity |-> FALSE, flagged_words |-> <<>>,
       sensitive_info |-> <<>>] }

ProcessPieces ==
    { <<"k","i","l","l">>, <<"k","i","l","l"," ">>, <<"h","a","t","e">>, <<" ">>, <<"*">>, card16 }

DetectionRules ==
    { [value |-> <<"k","i","l","l">>, category |-> "violence"],
      [value |-> <<"h","a","t","e">>, category |-> "hate_speech"],
      [value |-> card16, category |-> "credit_cards"] }

\* strings handed to python_decrypt.decrypt_content
CipherChoices ==
    {EmptyStr, NotBase64}
        \cup {encrypt_data(k, <<"o","k">>, 1) : k \in Keys}
        \cup {Tampered(encrypt_data(k, <<"o","k">>, 1)) : k \in Keys}

TextInputs ==
    { [kind |-> "text", text |-> t] : t \in SeqsUpTo(FilterPieces, MaxPieces) }
    \cup
    { [kind |-> "detected", text |-> t, detection |-> d] :
        t \in SeqsUpTo(DetectedPieces, MaxPieces), d \in Detections }
    \cup
    { [kind |-> "process", server |-> s, text |-> t, rules |-> r] :
        s \in {"app", "text_analysis"}, t \in SeqsUpTo(ProcessPieces, MaxPieces),
        r \in SUBSET DetectionRules }
    \cup
    { [kind |-> "cipher", encrypted |-> c] : c \in CipherChoices }
    \cup
    { [kind |-> "recover", server |-> s, has_text |-> h, processed_text |-> p, log |-> l] :
        s \in {"app", "text_analysis"}, h \in BOOLEAN,
        p \in {<<>>, <<"*","*","*","*">>, <<"I"," ","*","*","*","*">>},
        l \in {"absent", "empty", "entries"} }

InitText ==
    /\ stats = InitStats
    /\ key \in Keys
    /\ held = NoHeld
    /\ op = "input"
    /\ arg \in TextInputs
    /\ result = <<>>

ApplyFilterText ==
    /\ op = "input"
    /\ arg.kind = "text"
    /\ FilterText(arg.text)

ApplyPyFilterText ==
    /\ op = "input"
    /\ arg.kind = "detected"
    /\ \E iv \in IVs : result' = py_filter_text(key, arg.text, arg.detection, iv)
    /\ op' = "py_filter_text"
    /\ UNCHANGED <<stats, key, held, arg>>

ProcessText ==
    /\ op = "input"
    /\ arg.kind = "process"
    /\ \E iv \in IVs : result' = process_endpoint(arg.server, key, arg.text, arg.rules, iv)
    /\ op' = "process"
    /\ UNCHANGED <<stats, key, held, arg>>

\* the client sends back exactly the processed text and the log it was given
RecoverText ==
    /\ op = "process"
    /\ result.success
    /\ result' = recover_endpoint(arg.server, key, result.processed_text, result.encryption_log)
    /\ op' = "recover"
    /\ UNCHANGED <<stats, key, held, arg>>

ApplyPyDecrypt ==
    /\ op = "input"
    /\ arg.kind = "cipher"
    /\ result' = py_decrypt_content(key, arg.encrypted)
    /\ op' = "py_decrypt_content"
    /\ UNCHANGED <<stats, key, held, arg>>

\* the log that /process returns for "kill" under key k
OneEntryLog(k) ==
    process_text(k, <<"k","i","l","l">>,
                 <<[value |-> <<"k","i","l","l">>, category |-> "violence"]>>, 1).encryption_log

\* a /recover request that did not come from a /process answer
RecoverRequest ==
    /\ op = "input"
    /\ arg.kind = "recover"
    /\ result' = recover_request(arg.server, key,
                                 [has_text |-> arg.has_text,
                                  processed_text |-> arg.processed_text,
                                  has_log |-> arg.log # "absent",
                                  encryption_log |-> IF arg.log = "entries"
                                                     THEN OneEntryLog(key) ELSE NoLog])
    /\ op' = "/recover"
    /\ UNCHANGED <<stats, key, held, arg>>

NextText ==
    \/ RecoverRequest
    \/ ApplyPyDecrypt
    \/ ApplyFilterText
    \/ ApplyPyFilterText
    \/ ProcessText
    \/ RecoverText

SpecText == InitText /\ [][NextText]_vars

-----------------------------------------------------------------------------
(* Properties of the text functions (checked under SpecText).              *)

Elems(seq) == {seq[i] : i \in 1..Len(seq)}

\* the sensitive items python_text_filter.filter_text was given, by type
SensitiveItems(detection) ==
    UNION {{[type_name |-> detection.sensitive_info[i].type_name, item |-> it] :
                it \in Elems(detection.sensitive_info[i].items)} :
           i \in 1..Len(detection.sensitive_info)}

\* C2: processing a text with action "encrypt" and recovering from exactly
\* the processed text and log that were returned gives the text back
C2_RecoveryFidelity ==
    op = "recover" => result.success /\ result.recovered_text = arg.text

\* C5: every mask filter_text substitutes has the length of the value it
\* replaces (also a card value shorter than 4), so a filtered text keeps its
\* length
C5_MaskLength ==
    /\ (op = "filter_text" /\ result.filtered) =>
           Len(result.modified) = Len(result.original)
    /\ (op = "py_filter_text" /\ ~arg.detection.raised) =>
           /\ \A w \in Elems(arg.detection.flagged_words) : Len(FullMask(w)) = Len(w)
           /\ \A x \in SensitiveItems(arg.detection) :
                  Len(SensitiveMask(x.type_name, x.item)) = Len(x.item)
           /\ result.filtered => Len(result.modified) = Len(result.original)

\* a filtered text in which a card value of fewer than 4 characters occurs
C5_Witness ==
    /\ op = "py_filter_text"
    /\ result.filtered
    /\ result.modified # result.original
    /\ \E x \in SensitiveItems(arg.detection) :
           x.type_name = credit_cards /\ Len(x.item) < 4 /\ Contains(arg.text, x.item)

\* nothing is flagged by the detectors
NothingDetected(detection) ==
    /\ ~detection.raised
    /\ ~detection.hate_speech
    /\ ~detection.profanity
    /\ detection.flagged_words = <<>>
    /\ SensitiveItems(detection) = {}

\* the result is the input passed through: not filtered, nothing changed,
\* no ciphertext, no error
PassedThrough(res, text) ==
    /\ res.filtered = FALSE
    /\ res.original = text
    /\ res.modified = text
    /\ "encrypted" \notin DOMAIN res
    /\ "error" \notin DOMAIN res

\* C6: a text in which nothing is flagged (the empty and the whitespace-only
\* text included) is passed through unchanged, unfiltered and without error
C6_PassThrough ==
    /\ (op = "filter_text" /\ \A i \in 1..Len(inappropriate_patterns) :
                                  ~pattern_search(inappropriate_patterns[i], arg)) =>
           PassedThrough(result, arg)
    /\ (op = "py_filter_text" /\ NothingDetected(arg.detection)) =>
           PassedThrough(result, arg.text)

\* a whitespace-only text went through ContentFilter.filter_text
C6_Witness ==
    /\ op = "filter_text"
    /\ arg # <<>>
    /\ \A i \in 1..Len(arg) : IsSpace(arg[i])
    /\ result.filtered = FALSE

\* the only thing detected is one sensitive item x
OnlyDetected(detection, x) ==
    /\ ~detection.raised
    /\ detection.flagged_words = <<>>
    /\ SensitiveItems(detection) = {x}

-----------------------------------------------------------------------------
(* Properties of the ContentFilter instance (checked under Spec).          *)

\* the string is a ciphertext encrypt made under the instance's key
IsCiphertext(encrypted) ==
    /\ b64decode(encrypted).ok
    /\ FernetDecrypt(key, b64decode(encrypted).val).ok

\* C1: on one instance, decrypt_content gives back the text that
\* encrypt_content was given
C1_RoundTrip ==
    (op = "decrypt_content" /\ held.set /\ held.from = "encrypt_content"
        /\ arg = held.encrypted) =>
        result = held.original

\* the ciphertext of a text with a character outside ASCII was decrypted
C1_Witness ==
    /\ op = "decrypt_content"
    /\ held.set
    /\ held.from = "encrypt_content"
    /\ arg = held.encrypted
    /\ "E_ACUTE" \in Elems(held.original)
    /\ result = held.original

\* C3: the ciphertext of a filtered result decrypts to that call's input
\* whatever calls came in between: the key does not change
C3_KeyStable ==
    (held.set /\ held.from \in {"filter_text", "filter_image"}) =>
        /\ decrypt_content(key, held.encrypted) = held.original
        /\ (op = "decrypt_content" /\ arg = held.encrypted) => result = held.original

\* a ciphertext given by filter_text is decrypted after another filter call
C3_Witness ==
    /\ held.set
    /\ held.from = "filter_text"
    /\ op = "decrypt_content"
    /\ arg = held.encrypted
    /\ result = held.original
    /\ stats.total_requests >= 2
    /\ stats.images_filtered >= 1

\* C4: decrypt of a string that is no ciphertext of this key is an error
\* outcome, never a value a successful decryption returns
C4_DecryptionFailed ==
    (op = "decrypt_content" /\ ~IsCiphertext(arg)) =>
        \A content \in ExampleContents, iv \in IVs :
            result # decrypt_content(key, encrypt_content(key, content, iv))

-----------------------------------------------------------------------------
(* backend/image_content_filter.py: the flags and the verdict that         *)
(* ImageContentFilter derives from a Vision response.  Scores and          *)
(* thresholds are in hundredths.                                           *)

Likelihoods == {"UNKNOWN", "VERY_UNLIKELY", "UNLIKELY", "POSSIBLE", "LIKELY", "VERY_LIKELY"}

likelihood_scores ==
    [UNKNOWN |-> 0, VERY_UNLIKELY |-> 10, UNLIKELY |-> 30, POSSIBLE |-> 50,
     LIKELY |-> 70, VERY_LIKELY |-> 90]

confidence_thresholds ==
    [adult |-> 70, violence |-> 60, racy |-> 70, medical |-> 80, spoof |-> 80]

\* the categories, in the order _process_response visits them
Categories == <<"adult", "violence", "racy", "medical", "spoof">>

\* the flag a category contributes to content_flags: its name
CategoryFlag ==
    [adult |-> <<"a","d","u","l","t">>,
     violence |-> <<"v","i","o","l","e","n","c","e">>,
     racy |-> <<"r","a","c","y">>,
     medical |-> <<"m","e","d","i","c","a","l">>,
     spoof |-> <<"s","p","o","o","f">>]

offensive_terms ==
    << <<"h","a","t","e">>, <<"k","i","l","l">>, <<"a","t","t","a","c","k">>,
       <<"v","i","o","l","e","n","c","e">>, <<"r","a","c","i","s","t">>, <<"n","a","z","i">> >>

label_prefix == <<"l","a","b","e","l",":">>

\* f"label:{label.description}"
LabelFlag(description) == label_prefix \o description

\* flag.startswith("label:")
IsLabelFlag(flag) == Len(flag) >= Len(label_prefix) /\ SubSeq(flag, 1, Len(label_prefix)) = label_prefix

\* (mutant) a category is flagged only when its score exceeds the threshold
CategoryFlaggedStrict(category, score) == score > confidence_thresholds[category]

\* score >= self.confidence_thresholds[category]
CategoryFlagged(category, score) == score >= confidence_thresholds[category]

\* (mutant) a label is flagged from a confidence of 0.7 on
LabelFlaggedAtLeast(label) ==
    /\ label.score >= 70
    /\ \E i \in 1..Len(offensive_terms) : Contains(LowerStr(label.description), offensive_terms[i])

\* label.score > 0.7 and any(keyword in label.description.lower() ...)
LabelFlagged(label) ==
    /\ label.score > 70
    /\ \E i \in 1..Len(offensive_terms) : Contains(LowerStr(label.description), offensive_terms[i])

\* (mutant) the label test comes before the adult / violence test
determine_safety_labels_first(content_flags) ==
    IF \E i \in 1..Len(content_flags) : IsLabelFlag(content_flags[i]) THEN "questionable"
    ELSE IF \E i \in 1..Len(content_flags) :
                content_flags[i] \in {CategoryFlag.adult, CategoryFlag.violence} THEN "unsafe"
    ELSE IF content_flags # <<>> THEN "potentially_concerning"
    ELSE "safe"

\* ImageContentFilter._determine_safety
_determine_safety(content_flags) ==
    IF \E i \in 1..Len(content_flags) :
           content_flags[i] \in {CategoryFlag.adult, CategoryFlag.violence} THEN "unsafe"
    ELSE IF \E i \in 1..Len(content_flags) : IsLabelFlag(content_flags[i]) THEN "questionable"
    ELSE IF content_flags # <<>> THEN "potentially_concerning"
    ELSE "safe"

\* the flags of the categories from index i on, in order
RECURSIVE CategoryFlagsFrom(_, _)
CategoryFlagsFrom(safe_search, i) ==
    IF i > Len(Categories) THEN <<>>
    ELSE (IF CategoryFlagged(Categories[i], likelihood_scores[safe_search[Categories[i]]])
          THEN <<CategoryFlag[Categories[i]]>> ELSE <<>>)
         \o CategoryFlagsFrom(safe_search, i + 1)

\* the flags of the labels, in order
RECURSIVE LabelFlags(_)
LabelFlags(label_annotations) ==
    IF label_annotations = <<>> THEN <<>>
    ELSE (IF LabelFlagged(Head(label_annotations))
          THEN <<LabelFlag(Head(label_annotations).description)>> ELSE <<>>)
         \o LabelFlags(Tail(label_annotations))

\* ImageContentFilter._process_response
_process_response(response) ==
    LET content_flags == CategoryFlagsFrom(response.safe_search_annotation, 1)
                             \o LabelFlags(response.label_annotations)
    IN  [safe_search |-> [c \in DOMAIN response.safe_search_annotation |->
                              likelihood_scores[response.safe_search_annotation[c]]],
         labels |-> response.label_annotations,
         content_flags |-> content_flags,
         overall_safety |-> _determine_safety(content_flags)]

-----------------------------------------------------------------------------
(* python_image_filter.py: the script imports image_content_filter (which  *)
(* builds a module-level ImageContentFilter), then filter_image builds its *)
(* own ImageContentFilter, calls analyze_image and falls back to a URL     *)
(* term list on any exception.                                             *)

\* the parameters that ImageContentFilter.analyze_image accepts
analyze_image_params == {"image_path", "image_url", "image_data"}

\* the keyword arguments that python_image_filter.filter_image passes to it
filter_image_kwargs == {"image_url", "show_results", "export_comparison"}

\* ImageContentFilter.analyze_image: an unexpected keyword is a TypeError;
\* _load_image, Image.open and the Vision call may raise (fetched = FALSE);
\* every exception is re-raised
analyze_image(kwargs, fetched, response) ==
    IF ~(kwargs \subseteq analyze_image_params) THEN [ok |-> FALSE, val |-> <<>>]
    ELSE IF ~fetched THEN [ok |-> FALSE, val |-> <<>>]
    ELSE [ok |-> TRUE, val |-> _process_response(response)]

placeholder_url == placeholder_image

serious_flags == {"violence", "racy", "adult"}

\* python_image_filter.filter_image, the body of the try after the analysis
ClassifiedResult(k, image_url, results, iv) ==
    IF results.overall_safety \in {"unsafe", "questionable"} THEN
        [filtered |-> TRUE,
         reason |-> <<"content detected", results.overall_safety, results.content_flags>>,
         original |-> image_url, modified |-> placeholder_url,
         encrypted |-> encrypt_data(k, image_url, iv),
         safety_score |-> results.overall_safety,
         content_flags |-> results.content_flags]
    ELSE IF results.overall_safety = "potentially_concerning" THEN
        IF \E i \in 1..Len(results.content_flags) : results.content_flags[i] \in serious_flags THEN
            [filtered |-> FALSE, warning |-> TRUE,
             reason |-> <<"Potentially concerning content", results.content_flags>>,
             original |-> image_url, modified |-> image_url,
             safety_score |-> results.overall_safety,
             content_flags |-> results.content_flags]
        ELSE
            [filtered |-> FALSE, warning |-> FALSE,
             reason |-> "No inappropriate content detected",
             original |-> image_url, modified |-> image_url, safety_score |-> "safe"]
    ELSE
        [filtered |-> FALSE, reason |-> "No inappropriate content detected",
         original |-> image_url, modified |-> image_url,
         safety_score |-> results.overall_safety]

\* the terms of the fallback
fallback_terms ==
    << <<"n","s","f","w">>, <<"a","d","u","l","t">>, <<"x","x","x">>,
       <<"p","o","r","n">>, <<"e","x","p","l","i","c","i","t">> >>

\* any(term in image_url.lower() for term in [...])
FallbackInappropriate(image_url) ==
    \E i \in 1..Len(fallback_terms) : Contains(LowerStr(image_url), fallback_terms[i])

\* python_image_filter.filter_image, the except branch
url_fallback(k, image_url, iv) ==
    IF FallbackInappropriate(image_url) THEN
        [filtered |-> TRUE,
         reason |-> "Potentially inappropriate image (URL pattern match)",
         original |-> image_url, modified |-> placeholder_url,
         encrypted |-> encrypt_data(k, image_url, iv)]
    ELSE
        [filtered |-> FALSE,
         reason |-> "No inappropriate content detected (fallback check)",
         original |-> image_url, modified |-> image_url]

\* the result for an analysis that returned, the fallback for one that raised
AfterAnalysis(k, image_url, analysis, iv) ==
    IF analysis.ok THEN ClassifiedResult(k, image_url, analysis.val, iv)
    ELSE url_fallback(k, image_url, iv)

\* python_image_filter.filter_image; env tells whether ImageContentFilter()
\* can be built and whether the image can be fetched and annotated
py_filter_image(k, image_url, env, iv) ==
    IF ~env.construct_ok THEN url_fallback(k, image_url, iv)
    ELSE AfterAnalysis(k, image_url,
                       analyze_image(filter_image_kwargs, env.fetched, env.response), iv)

\* what one run of the script gives: `from image_content_filter import
\* ImageContentFilter` runs that module's `filter_instance =
\* ImageContentFilter()`, whose exception ends the run before main(); else
\* main() prints the dict of filter_image
run_python_image_filter(k, image_url, env, iv) ==
    IF ~env.import_ok THEN [exit |-> 1, traceback |-> TRUE, printed |-> <<>>]
    ELSE [exit |-> 0, traceback |-> FALSE, printed |-> py_filter_image(k, image_url, env, iv)]

-----------------------------------------------------------------------------
(* The image functions applied to one input: _process_response on a Vision *)
(* response, ContentFilter.filter_image on a URL.                          *)

Attack(score) == [description |-> <<"A","t","t","a","c","k">>, score |-> score]

Cat(score) == [description |-> <<"C","a","t">>, score |-> score]

LabelLists ==
    { <<>>, <<Attack(90)>>, <<Attack(70)>>, <<Cat(90)>>, <<Cat(90), Attack(71)>>,
      <<Attack(90), Attack(90)>> }

Responses ==
    { [safe_search_annotation |-> s, label_annotations |-> ls] :
        s \in [{"adult", "violence", "racy", "medical", "spoof"} -> Likelihoods],
        ls \in LabelLists }

UrlPrefixes ==
    { <<>>, <<"h","t","t","p",":">>, <<"h","t","t","p",":","/","/">>, <<"/","/">>,
      <<"1","t","t","p",":","/","/">> }

HostPieces ==
    { <<"a",".","i","o">>, <<"n","s","f","w">>, <<"A","D","U","L","T">>, <<"x","X","x">>,
      <<"[">>, <<"b">> }

UrlPaths == { <<>>, <<"/","p","o","r","n">>, <<"/","E","x","p","l","i","c","i","t",".","j","p","g">> }

Urls ==
    { p \o h \o q : p \in UrlPrefixes, h \in SeqsUpTo(HostPieces, MaxHostPieces), q \in UrlPaths }
    \cup
    { <<"h","t","t","p",":","/","/","e","x","a","m","p","l","e",".","c","o","m",
        "/","n","s","f","w","/","p","i","c",".","j","p","g">> }

\* a response that the classifier could give: adult is VERY_LIKELY
AdultResponse ==
    [safe_search_annotation |->
         [c \in {"adult", "violence", "racy", "medical", "spoof"} |->
              IF c = "adult" THEN "VERY_LIKELY" ELSE "VERY_UNLIKELY"],
     label_annotations |-> <<>>]

\* the surroundings of one run of python_image_filter.py
ScriptEnvs ==
    [import_ok : BOOLEAN, construct_ok : BOOLEAN, fetched : BOOLEAN, response : {AdultResponse}]

ImageInputs ==
    { [kind |-> "response", response |-> r] : r \in Responses }
    \cup
    { [kind |-> "url", url |-> u] : u \in Urls }
    \cup
    { [kind |-> "script", url |-> u, env |-> e] : u \in Urls, e \in ScriptEnvs }

\* the key is drawn as in Init; the keys are interchangeable
InitImage ==
    /\ stats = InitStats
    /\ key = "k1"
    /\ held = NoHeld
    /\ op = "input"
    /\ arg \in ImageInputs
    /\ result = <<>>

ProcessResponse ==
    /\ op = "input"
    /\ arg.kind = "response"
    /\ result' = _process_response(arg.response)
    /\ op' = "_process_response"
    /\ UNCHANGED <<stats, key, held, arg>>

ApplyFilterImage ==
    /\ op = "input"
    /\ arg.kind = "url"
    /\ FilterImage(arg.url)

\* one run of python_image_filter.py on a URL
RunPyImageFilter ==
    /\ op = "input"
    /\ arg.kind = "script"
    /\ \E iv \in IVs : result' = run_python_image_filter(key, arg.url, arg.env, iv)
    /\ op' = "python_image_filter"
    /\ UNCHANGED <<stats, key, held, arg>>

NextImage ==
    \/ RunPyImageFilter
    \/ ProcessResponse
    \/ ApplyFilterImage

SpecImage == InitImage /\ [][NextImage]_vars

-----------------------------------------------------------------------------
(* Properties of the image functions (checked under SpecImage).            *)

Score(response, category) == likelihood_scores[response.safe_search_annotation[category]]

\* an adult or violence score reaches its threshold
ReachesUnsafe(response) ==
    \E c \in {"adult", "violence"} : Score(response, c) >= confidence_thresholds[c]

\* a label is a free-text match: confident and holding an offensive term
HasLabelMatch(response) ==
    \E i \in 1..Len(response.label_annotations) : LabelFlagged(response.label_annotations[i])

\* a racy, medical or spoof score reaches its threshold
ReachesConcern(response) ==
    \E c \in {"racy", "medical", "spoof"} : Score(response, c) >= confidence_thresholds[c]

\* a category is scored above zero and below its threshold
HasFlagBelowThreshold(response) ==
    \E c \in DOMAIN confidence_thresholds :
        Score(response, c) > 0 /\ Score(response, c) < confidence_thresholds[c]

\* flags with the elements at i and i + 1 exchanged
SwapAt(flags, i) ==
    [j \in 1..Len(flags) |-> IF j = i THEN flags[i + 1] ELSE IF j = i + 1 THEN flags[i] ELSE flags[j]]

Reverse(flags) == [j \in 1..Len(flags) |-> flags[Len(flags) + 1 - j]]

\* the verdict is the same whatever the order of the flags
OrderIndependent(flags) ==
    /\ _determine_safety(Reverse(flags)) = _determine_safety(flags)
    /\ \A i \in 1..(Len(flags) - 1) : _determine_safety(SwapAt(flags, i)) = _determine_safety(flags)

\* C8 (as amended): the verdict follows the precedence chain: unsafe when an
\* adult or violence score reaches its threshold, else questionable when a
\* label matches, else potentially_concerning when a racy, medical or spoof
\* score reaches its threshold (these are the only other flags: a score
\* below its threshold raises none), else safe; and it does not depend on
\* the order of the flags
C8_VerdictChain ==
    op = "_process_response" =>
        /\ result.overall_safety =
               (IF ReachesUnsafe(arg.response) THEN "unsafe"
                ELSE IF HasLabelMatch(arg.response) THEN "questionable"
                ELSE IF ReachesConcern(arg.response) THEN "potentially_concerning"
                ELSE "safe")
        /\ (result.content_flags # <<>>) =
               (ReachesUnsafe(arg.response) \/ HasLabelMatch(arg.response)
                    \/ ReachesConcern(arg.response))
        /\ OrderIndependent(result.content_flags)

\* a response whose only flags are below the adult / violence and label
\* steps, with another category scored below its threshold
C8_Witness ==
    /\ op = "_process_response"
    /\ result.overall_safety = "potentially_concerning"
    /\ Len(result.content_flags) >= 2
    /\ HasFlagBelowThreshold(arg.response)

\* C8 (as claimed): potentially_concerning is the verdict whenever a flag is
\* present, one below its threshold included, and the verdict is neither
\* unsafe nor questionable
C8_Original ==
    op = "_process_response" =>
        /\ result.overall_safety =
               (IF ReachesUnsafe(arg.response) THEN "unsafe"
                ELSE IF HasLabelMatch(arg.response) THEN "questionable"
                ELSE IF ReachesConcern(arg.response) \/ HasFlagBelowThreshold(arg.response)
                     THEN "potentially_concerning"
                ELSE "safe")
        /\ OrderIndependent(result.content_flags)

Severity == [safe |-> 0, potentially_concerning |-> 1, questionable |-> 2, unsafe |-> 3]

\* every flag _process_response can put in content_flags
AllFlags ==
    {CategoryFlag[c] : c \in DOMAIN CategoryFlag}
        \cup UNION {{LabelFlag(ls[i].description) : i \in 1..Len(ls)} : ls \in LabelLists}

\* C9: adding an adult flag to any flag set gives unsafe, and adding any
\* flag never gives a less severe verdict
C9_MonotonicSeverity ==
    op = "_process_response" =>
        /\ _determine_safety(Append(result.content_flags, CategoryFlag.adult)) = "unsafe"
        /\ _determine_safety(<<CategoryFlag.adult>> \o result.content_flags) = "unsafe"
        /\ \A l \in {"LIKELY", "VERY_LIKELY"} :
               _process_response([arg.response EXCEPT !.safe_search_annotation.adult = l])
                   .overall_safety = "unsafe"
        /\ \A f \in AllFlags :
               /\ Severity[_determine_safety(Append(result.content_flags, f))]
                      >= Severity[result.overall_safety]
               /\ Severity[_determine_safety(<<f>> \o result.content_flags)]
                      >= Severity[result.overall_safety]

\* a questionable flag set without an adult flag: adding one changes the verdict
C9_Witness ==
    /\ op = "_process_response"
    /\ result.overall_safety = "questionable"
    /\ Len(result.content_flags) >= 2
    /\ Score(arg.response, "adult") < confidence_thresholds.adult

\* some pattern of inappropriate_url_patterns is in the URL, in any case
UrlHasPattern(image_url) ==
    \E i \in 1..Len(inappropriate_url_patterns) :
        Contains(LowerStr(image_url), inappropriate_url_patterns[i])

\* C10: a URL that has a scheme and a host and holds one of the patterns (in
\* the host or anywhere else, in any case) is filtered, replaced by the
\* placeholder, and its ciphertext decrypts back to the URL
C10_FilterImagePattern ==
    (op = "filter_image" /\ urlparse(arg).ok /\ urlparse(arg).scheme # <<>>
        /\ urlparse(arg).netloc # <<>> /\ UrlHasPattern(arg)) =>
        /\ result.filtered
        /\ result.original = arg
        /\ result.modified = placeholder_image
        /\ "encrypted" \in DOMAIN result
        /\ decrypt_content(key, result.encrypted) = arg

\* a URL whose host holds a pattern in upper case was filtered
C10_Witness ==
    /\ op = "filter_image"
    /\ urlparse(arg).ok
    /\ urlparse(arg).scheme # <<>>
    /\ Contains(urlparse(arg).netloc, <<"A","D","U","L","T">>)
    /\ result.filtered
    /\ result.reason = "Potentially inappropriate image"

-----------------------------------------------------------------------------
(* Properties of python_image_filter.py (checked under SpecImage).         *)

\* the classifier is unavailable in this run: it cannot be built when the
\* script starts or when filter_image builds it, or its analysis raises
ClassifierFails(env) ==
    \/ ~env.import_ok
    \/ ~env.construct_ok
    \/ ~analyze_image(filter_image_kwargs, env.fetched, env.response).ok

\* the printed dict is a normal result decided by the URL terms alone
DecidedByFallback(printed, image_url) ==
    /\ "error" \notin DOMAIN printed
    /\ printed.original = image_url
    /\ IF FallbackInappropriate(image_url)
       THEN /\ printed.filtered
            /\ printed.modified = placeholder_url
            /\ decrypt_data(key, printed.encrypted) = [ok |-> TRUE, val |-> image_url]
       ELSE /\ ~printed.filtered
            /\ printed.modified = image_url

\* C11: when the classifier cannot be built or its analysis raises, the
\* failure is never surfaced: the run gives a normal result without an
\* 'error', decided by the URL-term fallback
C11_FallbackNeverSurfaces ==
    (op = "python_image_filter" /\ ClassifierFails(arg.env)) =>
        /\ ~result.traceback
        /\ result.exit = 0
        /\ DecidedByFallback(result.printed, arg.url)

\* once the script's imports have succeeded, every call of filter_image
\* is decided by the fallback (the analysis always raises)
FallbackOnceImported ==
    (op = "python_image_filter" /\ arg.env.import_ok) =>
        /\ ClassifierFails(arg.env)
        /\ DecidedByFallback(result.printed, arg.url)

-----------------------------------------------------------------------------
(* Properties of call sequences on one ContentFilter (checked under Spec). *)

\* the URL parses with a scheme and a host
ValidUrl(image_url) ==
    /\ urlparse(image_url).ok
    /\ urlparse(image_url).scheme # <<>>
    /\ urlparse(image_url).netloc # <<>>

\* C12: the decision is deterministic: a call whose input was filtered by
\* an earlier call of the same operation is filtered again, with the same
\* modified value; and a valid URL that holds none of the URL patterns is
\* returned unfiltered and unchanged
C12_Deterministic ==
    /\ (op = "filter_text" /\ held.set /\ held.from = op /\ held.original = arg) =>
           (result.filtered /\ result.modified = MaskedText(arg))
    /\ (op = "filter_image" /\ held.set /\ held.from = op /\ held.original = arg) =>
           (result.filtered /\ result.modified = placeholder_image)
    /\ (op = "filter_image" /\ ValidUrl(arg) /\ ~UrlHasPattern(arg)) =>
           (~result.filtered /\ result.modified = arg)

-----------------------------------------------------------------------------
(* Concurrent requests on the shared ContentFilter of app.py.  Each        *)
(* request thread runs filter_text or filter_image; an increment           *)
(* self.stats[c] += 1 is a read of the counter followed by a write of the  *)
(* value read plus one, and nothing in the code orders the threads.        *)
(* arg[t] is the request of thread t, result[t] its position, the value it *)
(* last read and, once it has returned, the dict it returned.              *)

NumThreads == 2

Threads == 1..NumThreads

\* the requests a thread may serve
Requests ==
    { [kind |-> "text", input |-> <<"I"," ","k","i","l","l">>, random_hit |-> FALSE],
      [kind |-> "text", input |-> <<>>, random_hit |-> FALSE],
      [kind |-> "image", input |-> <<"h","t","t","p",":","/","/","N","S","F","W",".","i","o","/","a">>,
       random_hit |-> FALSE],
      [kind |-> "image", input |-> <<"h","t","t","p",":","/","/","a",".","i","o","/","b">>,
       random_hit |-> FALSE],
      [kind |-> "image", input |-> <<"h","t","t","p",":","/","/","a",".","i","o","/","b">>,
       random_hit |-> TRUE] }

\* the dict the request returns; it does not depend on the counters
Returned(request) ==
    IF request.kind = "text" THEN filter_text(InitStats, key, request.input, 1).result
    ELSE filter_image(InitStats, key, request.input, request.random_hit, 1).result

\* the counter of filtered requests that the request's function increments
FilteredCounter(request) ==
    IF request.kind = "text" THEN "text_filtered" ELSE "images_filtered"

NotReturned == [filtered |-> FALSE]

InitConc ==
    /\ stats = InitStats
    /\ key = "k1"
    /\ held = NoHeld
    /\ op = "concurrent"
    /\ arg \in [Threads -> Requests]
    /\ result = [t \in Threads |-> [pc |-> "read_total", read |-> 0, returned |-> NotReturned]]

\* self.stats['total_requests'] += 1: the read
ReadTotal(t) ==
    /\ result[t].pc = "read_total"
    /\ result' = [result EXCEPT ![t].pc = "write_total", ![t].read = stats.total_requests]
    /\ UNCHANGED <<stats, key, held, op, arg>>

\* self.stats['total_requests'] += 1: the write; a request that is not
\* filtered then returns
WriteTotal(t) ==
    /\ result[t].pc = "write_total"
    /\ stats' = [stats EXCEPT !.total_requests = result[t].read + 1]
    /\ \E r \in {Returned(arg[t])} :
        result' = IF r.filtered THEN [result EXCEPT ![t].pc = "read_filtered"]
                  ELSE [result EXCEPT ![t].pc = "done", ![t].returned = r]
    /\ UNCHANGED <<key, held, op, arg>>

\* self.stats['text_filtered'] += 1 or self.stats['images_filtered'] += 1: the read
ReadFiltered(t) ==
    /\ result[t].pc = "read_filtered"
    /\ result' = [result EXCEPT ![t].pc = "write_filtered",
                                ![t].read = stats[FilteredCounter(arg[t])]]
    /\ UNCHANGED <<stats, key, held, op, arg>>

\* the write of the filtered counter, and the return of the filtered dict
WriteFiltered(t) ==
    /\ result[t].pc = "write_filtered"
    /\ stats' = [stats EXCEPT ![FilteredCounter(arg[t])] = result[t].read + 1]
    /\ result' = [result EXCEPT ![t].pc = "done", ![t].returned = Returned(arg[t])]
    /\ UNCHANGED <<key, held, op, arg>>

NextConc ==
    \E t \in Threads :
        \/ ReadTotal(t)
        \/ WriteTotal(t)
        \/ ReadFiltered(t)
        \/ WriteFiltered(t)

SpecConc == InitConc /\ [][NextConc]_vars

\* the threads that have returned
Completed == {t \in Threads : result[t].pc = "done"}

\* the completed requests of a kind that returned filtered=true
CompletedFiltered(kind) ==
    {t \in Completed : arg[t].kind = kind /\ result[t].returned.filtered}

\* C13: no counter update is lost: once all the requests have completed,
\* total_requests has grown by their number and text_filtered and
\* images_filtered by the number of them that returned filtered=true
C13_NoLostUpdate ==
    (Completed = Threads) =>
        /\ stats.total_requests = NumThreads
        /\ stats.text_filtered = Cardinality(CompletedFiltered("text"))
        /\ stats.images_filtered = Cardinality(CompletedFiltered("image"))

\* C14: a /decrypt request whose ciphertext cannot be decrypted is answered
\* with status 500 and an empty result, never with 200
C14_DecryptFailureIs500 ==
    (op = "/decrypt" /\ arg.json /\ arg.has_encrypted /\ ~IsCiphertext(arg.encrypted)) =>
        /\ result.status = 500
        /\ "decrypted" \in DOMAIN result.body => result.body.decrypted = <<>>

-----------------------------------------------------------------------------
(* Properties of the /recover endpoints (checked under SpecText).          *)

\* C15: a /recover request whose encryption log is absent or an empty list
\* is answered with 400, and the recovery function is not called for it
C15_EmptyLogIs400 ==
    (op = "/recover" /\ arg.log \in {"absent", "empty"}) =>
        /\ result.status = 400
        /\ ~result.invoked

\* index j of s lies inside a match of pattern p
InMatch(p, s, j) ==
    \E i \in 1..j : PatternMatchAt(p, s, i) # 0 /\ j < PatternMatchAt(p, s, i)

\* index j of t lies inside an occurrence of the value v
InOccurrence(v, t, j) ==
    v # <<>> /\ \E i \in 1..j : OccursAt(v, t, i) /\ j < i + Len(v)

\* the values python_text_filter.filter_text masks over their full length:
\* the flagged words and the sensitive items that are not card values
FullyMaskedValues(detection) ==
    Elems(detection.flagged_words)
        \cup {x.item : x \in {y \in SensitiveItems(detection) : y.type_name # credit_cards}}

\* C16: in a filtered text every character of the original inside a match
\* of a pattern (ContentFilter) or inside an occurrence of a flagged word or
\* non-card sensitive value (python_text_filter, also when values overlap or
\* contain one another) is an asterisk in modified; no pattern matches the
\* modified text and filtering it again returns filtered = false
C16_EveryOccurrenceMasked ==
    /\ (op = "filter_text" /\ result.filtered) =>
           /\ \A j \in 1..Len(arg) :
                  (\E p \in 1..Len(inappropriate_patterns) :
                       InMatch(inappropriate_patterns[p], arg, j)) =>
                      result.modified[j] = "*"
           /\ MatchedPatterns(result.modified) = <<>>
           /\ \A iv \in IVs : ~filter_text(stats, key, result.modified, iv).result.filtered
    /\ (op = "py_filter_text" /\ result.filtered) =>
           \A j \in 1..Len(arg.text) :
               (\E v \in FullyMaskedValues(arg.detection) : InOccurrence(v, arg.text, j)) =>
                   result.modified[j] = "*"

flagged_words == <<"f","l","a","g","g","e","d","_","w","o","r","d","s">>

\* the categories in the order filter_text masks them: the flagged words,
\* then the types of sensitive_info
MaskingOrder(detection) ==
    <<[type_name |-> flagged_words, items |-> detection.flagged_words]>>
        \o detection.sensitive_info

\* every value the detectors returned, under any category
DetectedValues(detection) ==
    UNION {Elems(MaskingOrder(detection)[a].items) : a \in 1..Len(MaskingOrder(detection))}

\* C17: when one literal value is detected under two categories, the mask in
\* the output of python_text_filter.filter_text is that of the category
\* processed first; processing the later category does not change it
C17_FirstMatchWins ==
    (op = "py_filter_text" /\ ~arg.detection.raised /\ result.filtered) =>
        \A v \in DetectedValues(arg.detection) :
            \A a, b \in 1..Len(MaskingOrder(arg.detection)) :
                (/\ a < b
                 /\ v \in Elems(MaskingOrder(arg.detection)[a].items)
                 /\ v \in Elems(MaskingOrder(arg.detection)[b].items)
                 /\ \A c \in 1..(a - 1) : v \notin Elems(MaskingOrder(arg.detection)[c].items)
                 /\ DetectedValues(arg.detection) = {v}
                 /\ Contains(arg.text, v)) =>
                    result.modified
                        = Replace(arg.text, v,
                                  SensitiveMask(MaskingOrder(arg.detection)[a].type_name, v))

\* index i of the original lies inside a flagged span: a match of one of
\* the patterns (ContentFilter) or an occurrence of a detected value
\* (python_text_filter)
InFlaggedSpan(i) ==
    IF op = "filter_text"
    THEN \E p \in 1..Len(inappropriate_patterns) : InMatch(inappropriate_patterns[p], arg, i)
    ELSE \E v \in DetectedValues(arg.detection) : InOccurrence(v, arg.text, i)

\* C18: for every filter_text result and every index i of the original,
\* modified[i] is original[i] or '*', and it differs from original[i] only
\* inside a flagged span of the original; the characters outside all flagged
\* spans keep their value and their position
C18_PositionConsistent ==
    op \in {"filter_text", "py_filter_text"} =>
        /\ result.original = (IF op = "filter_text" THEN arg ELSE arg.text)
        /\ Len(result.modified) = Len(result.original)
        /\ \A i \in 1..Len(result.original) :
               /\ result.modified[i] \in {result.original[i], "*"}
               /\ result.modified[i] # result.original[i] => InFlaggedSpan(i)

\* the likelihoods at which each category is flagged
FlaggingLikelihoods ==
    [adult |-> {"LIKELY", "VERY_LIKELY"}, violence |-> {"LIKELY", "VERY_LIKELY"},
     racy |-> {"LIKELY", "VERY_LIKELY"}, medical |-> {"VERY_LIKELY"}, spoof |-> {"VERY_LIKELY"}]

\* the label holds an offensive term, in any letter case
NamesOffensiveTerm(label) ==
    \E i \in 1..Len(offensive_terms) : Contains(LowerStr(label.description), offensive_terms[i])

\* C19: the flags of _process_response are exactly the categories whose
\* score in the fixed table reaches their threshold (adult, violence and
\* racy at likely or very_likely, medical and spoof only at very_likely),
\* each once, followed by one label flag for every label whose confidence is
\* strictly above 0.7 and whose lower-cased text holds an offensive term; a
\* label with confidence exactly 0.7 is not flagged
C19_AdapterFlags ==
    op = "_process_response" =>
        LET annotation == arg.response.safe_search_annotation
            labels == arg.response.label_annotations
            flagged == {c \in DOMAIN annotation : annotation[c] \in FlaggingLikelihoods[c]}
            matching == SelectSeq(labels, LAMBDA l : l.score > 70 /\ NamesOffensiveTerm(l))
            category_flags == SelectSeq(result.content_flags, LAMBDA f : ~IsLabelFlag(f))
            label_flags == SelectSeq(result.content_flags, IsLabelFlag)
        IN  /\ result.safe_search
                   = [c \in DOMAIN annotation |->
                          [UNKNOWN |-> 0, VERY_UNLIKELY |-> 10, UNLIKELY |-> 30,
                           POSSIBLE |-> 50, LIKELY |-> 70, VERY_LIKELY |-> 90][annotation[c]]]
            /\ \A c \in DOMAIN annotation :
                   c \in flagged <=>
                       result.safe_search[c] >= [adult |-> 70, violence |-> 60, racy |-> 70,
                                                 medical |-> 80, spoof |-> 80][c]
            /\ Elems(category_flags) = {CategoryFlag[c] : c \in flagged}
            /\ Len(category_flags) = Cardinality(flagged)
            /\ label_flags = [i \in 1..Len(matching) |-> LabelFlag(matching[i].description)]

\* a response with adult and medical at likely and an offensive label of
\* confidence exactly 0.7: adult is the only flag
C19_Witness ==
    /\ op = "_process_response"
    /\ arg.response.safe_search_annotation.adult = "LIKELY"
    /\ arg.response.safe_search_annotation.medical = "LIKELY"
    /\ \E i \in 1..Len(arg.response.label_annotations) :
           /\ arg.response.label_annotations[i].score = 70
           /\ NamesOffensiveTerm(arg.response.label_annotations[i])
    /\ result.content_flags = <<CategoryFlag.adult>>

-----------------------------------------------------------------------------
(* Statelessness of ContentFilter (checked under Spec).                    *)

\* the fields of a filter_text result that tell the verdict
VerdictFields(res) ==
    [filtered |-> res.filtered, reason |-> res.reason,
     original |-> res.original, modified |-> res.modified]

FilteredCount(res) == IF res.filtered THEN 1 ELSE 0

\* C21: on one instance called sequentially the counters start at zero;
\* every filter_text and filter_image call adds one to total_requests (a
\* text that is too short and an invalid URL included); text_filtered grows
\* by one exactly with a filter_text call that returned filtered = true and
\* images_filtered exactly with such a filter_image call; no other call
\* changes a counter, so text_filtered + images_filtered <= total_requests
\* and no counter ever decreases
C21_CounterInvariant ==
    /\ stats = InitStats
    /\ [](stats.text_filtered + stats.images_filtered <= stats.total_requests)
    /\ [][/\ op' = "filter_text" =>
               stats' = [total_requests |-> stats.total_requests + 1,
                         text_filtered |-> stats.text_filtered + FilteredCount(result'),
                         images_filtered |-> stats.images_filtered]
          /\ op' = "filter_image" =>
               stats' = [total_requests |-> stats.total_requests + 1,
                         text_filtered |-> stats.text_filtered,
                         images_filtered |-> stats.images_filtered + FilteredCount(result')]
          /\ op' \notin {"filter_text", "filter_image"} => stats' = stats
          /\ stats'.total_requests >= stats.total_requests
          /\ stats'.text_filtered >= stats.text_filtered
          /\ stats'.images_filtered >= stats.images_filtered]_vars

\* a filtered text followed by an invalid URL: two requests, one filtered
C21_Witness ==
    /\ op = "filter_image"
    /\ result.reason = "Invalid URL"
    /\ stats = [total_requests |-> 2, text_filtered |-> 1, images_filtered |-> 0]

=============================================================================
